---- MODULE Spec2Model ----
(***************************************************************************)
(* Model of package githubapp (src/app.go): the two-level, time-bounded    *)
(* cache of App installations and their repositories, and the token        *)
(* issuance that resolves owner -> installation -> repositories.           *)
(*                                                                         *)
(* Strings are sequences of code points, so that strings.ToLower and the   *)
(* "%s/%s" formatting are computed, not assumed.  Time is a counter of     *)
(* clock ticks; the zero time.Time is 0 and the clock starts late enough   *)
(* for a zero timestamp to be stale, as it is for any real clock.          *)
(*                                                                         *)
(* Every function of src/app.go is a frame kind on a per-caller call       *)
(* stack; every action is one step of one function, named after the line   *)
(* it starts at.  The remote side (AppsAPI and the repositories listing    *)
(* client) is the environment: a directory of installations and their      *)
(* repositories that may change, and calls that may fail.                  *)
(***************************************************************************)
EXTENDS Naturals, Sequences, FiniteSets

VARIABLES
    now,                \* the wall clock read by time.Now()
    installs,           \* App.installs
    installsUpdatedAt,  \* App.installsUpdatedAt
    remoteInstalls,     \* remote: the installations of the app, in listing order
    remoteRepos,        \* remote: installation ID -> its repositories, in listing order
    changes,            \* how often the remote directory has changed
    callers,            \* the goroutines that call into the App
    stack,              \* per caller: the call stack, innermost frame last
    ret,                \* per caller: the values of the last return
    call,               \* per caller: the arguments of the current top-level call
    result,             \* per caller: the outcome of the last top-level call
    log,                \* per caller: the remote calls and freshness checks of the
                        \* current top-level call
    listed              \* history: per installation, the freshness check of the last
                        \* repository resolution that listed its repositories in full

vars == <<now, installs, installsUpdatedAt, remoteInstalls, remoteRepos,
          changes, callers, stack, ret, call, result, log, listed>>

----------------------------------------------------------------------------
(* Bounds of the model *)

MaxTicks == 3
MaxRemoteChanges == 1
PageLen == 1

(* Program constants *)

\* updateInterval: 1 * time.Minute, in clock ticks of thirty seconds
UpdateInterval == 2
\* github.ListOptions{PerPage: 10}
InstallsPerPage == 10
\* github.ListOptions{PerPage: 100}
ReposPerPage == 100

----------------------------------------------------------------------------
(* Strings *)

Acme == <<65, 99, 109, 101>>
acme == <<97, 99, 109, 101>>
beta == <<98, 101, 116, 97>>
infra == <<105, 110, 102, 114, 97>>
docs == <<100, 111, 99, 115>>
Slash == <<47>>

\* strings.ToLower on ASCII
ToLower(s) == [j \in 1..Len(s) |-> IF s[j] \in 65..90 THEN s[j] + 32 ELSE s[j]]

\* a mutant: the arguments are given in the other order
SprintfOwnerRepo_Swapped(owner, repo) == repo \o <<47>> \o owner

\* fmt.Sprintf("%s/%s", owner, repo)
SprintfOwnerRepo(owner, repo) == owner \o Slash \o repo

Min(a, b) == IF a < b THEN a ELSE b

----------------------------------------------------------------------------
(* Errors and tokens *)

NoErr == [kind |-> "nil", payload |-> <<>>, wrapped |-> FALSE]

ErrInstallationNotFound(s) ==
    [kind |-> "ErrInstallationNotFound", payload |-> s, wrapped |-> FALSE]

\* an error returned by the remote call op
RemoteErr(op) == [kind |-> op, payload |-> <<>>, wrapped |-> FALSE]

\* fmt.Errorf("failed to create token: %s", err)
FailedToCreateToken(err) == [err EXCEPT !.wrapped = TRUE]

NoToken == [inst |-> 0, serial |-> 0]

NoRet == [val |-> 0, token |-> NoToken, err |-> NoErr]

NoCall == [owner |-> <<>>, repos |-> <<>>, perms |-> {}]

NoResult == [done |-> FALSE, token |-> NoToken, err |-> NoErr]

----------------------------------------------------------------------------
(* The remote directory *)

Acme7 == [ID |-> 7, Login |-> Acme]
acme9 == [ID |-> 9, Login |-> acme]
beta8 == [ID |-> 8, Login |-> beta]

InstallIDs == {7, 8, 9}

\* the listings of the installations: Acme listed after beta, Acme
\* uninstalled, and the account installed anew, renamed to acme
InstallListings == { <<beta8, Acme7>>, <<beta8>>, <<acme9, beta8>> }

\* the identity of the repository called name that installation inst can see
RemoteRepoID(inst, name) == 100 * inst + (IF name = infra THEN 1 ELSE 2)

\* the repositories of the accounts called acme, by name, in listing order;
\* the account called beta has none
RepoNameListings == { <<infra, docs>>, <<infra>> }

RepoDirectory(names) ==
    [inst \in InstallIDs |->
        IF inst = 8 THEN <<>>
        ELSE [y \in 1..Len(names) |->
                 [ID |-> RemoteRepoID(inst, names[y]), Name |-> names[y]]]]

RepoDirectories == { RepoDirectory(names) : names \in RepoNameListings }

\* one page of a listing, and the cursor of the page after it (0: none)
PageNo(page) == IF page = 0 THEN 1 ELSE page

PageItems(listing, page, perPage) ==
    LET n == Min(perPage, PageLen)
        first == (PageNo(page) - 1) * n + 1
        last == Min(PageNo(page) * n, Len(listing))
    IN  SubSeq(listing, first, last)

NextPage(listing, page, perPage) ==
    IF PageNo(page) * Min(perPage, PageLen) < Len(listing) THEN PageNo(page) + 1 ELSE 0

----------------------------------------------------------------------------
(* Call stacks *)

\* a stack frame: fn is the function, pc the line it is at, the rest its
\* parameters and locals (those a function does not have keep their zero value)
Frame(fn, pc) ==
    [ fn |-> fn, pc |-> pc,
      owner |-> <<>>, repo |-> <<>>, repos |-> <<>>, permissions |-> {},
      installationID |-> 0,      \* CreateInstallationToken: installationID
      k |-> 1,                   \* CreateInstallationToken: position in repos
      repositoryIDs |-> <<>>,    \* CreateInstallationToken: tokenOptions.RepositoryIDs
      acc |-> <<>>,              \* updateInstallations: installs; updateRepositories: repositories
      page |-> 0,                \* listOptions.Page
      i |-> 0,                   \* updateRepositories: i, as a position in App.installs (0: nil)
      detached |-> FALSE,        \* i points to an installation no longer in App.installs
      token |-> NoToken,         \* updateRepositories: token
      checkedAt |-> 0,           \* history: the clock at the freshness check
      pre |-> [installs |-> <<>>, installsUpdatedAt |-> 0] ]  \* history: the cache at entry

Top(c) == stack[c][Len(stack[c])]

At(c, fn, pc) ==
    /\ c \in callers
    /\ stack[c] # <<>>
    /\ Top(c).fn = fn
    /\ Top(c).pc = pc

\* the stack with its innermost frame replaced
WithTop(c, f) == [stack[c] EXCEPT ![Len(stack[c])] = f]

\* the innermost frame goes on as frame cur and calls f
Calling(c, cur, f) == Append(WithTop(c, cur), f)

\* number of CreateInstallationToken frames on a stack
RECURSIVE Depth(_)
Depth(s) ==
    IF s = <<>> THEN 0
    ELSE Depth(Tail(s)) + (IF Head(s).fn = "CreateInstallationToken" THEN 1 ELSE 0)

\* the innermost frame of c returns (val, token, err), the stacks being base
\* otherwise; the outermost return ends the top-level call
ReturnFrom(base, c, val, token, err) ==
    /\ stack' = [base EXCEPT ![c] = SubSeq(base[c], 1, Len(base[c]) - 1)]
    /\ IF Len(stack[c]) = 1
       THEN /\ result' = [result EXCEPT ![c] = [done |-> TRUE, token |-> token, err |-> err]]
            /\ ret' = [ret EXCEPT ![c] = NoRet]
       ELSE /\ result' = result
            /\ ret' = [ret EXCEPT ![c] = [val |-> val, token |-> token, err |-> err]]

Return(c, val, token, err) == ReturnFrom(stack, c, val, token, err)

\* the innermost frame of c goes on as frame f, having read the returned values
Goto(c, f) ==
    /\ stack' = [stack EXCEPT ![c] = WithTop(c, f)]
    /\ ret' = [ret EXCEPT ![c] = NoRet]
    /\ result' = result

\* the innermost frame of c goes on as frame cur and calls f
Call(c, cur, f) ==
    /\ stack' = [stack EXCEPT ![c] = Calling(c, cur, f)]
    /\ ret' = [ret EXCEPT ![c] = NoRet]
    /\ result' = result

\* no repository resolution has listed the repositories in full: else at is
\* the clock at its freshness check, and gen the App.installsUpdatedAt then
NotListed == [at |-> 0, gen |-> 0]

\* a record of one remote call, or of one freshness check, of a top-level call
Event(op, depth) ==
    [ op |-> op,
      depth |-> depth,           \* CreateInstallationToken frames on the stack
      id |-> 0,                  \* mint: the installation ID sent
      repositoryIDs |-> <<>>,    \* mint: tokenOptions.RepositoryIDs sent
      permissions |-> {},        \* mint: tokenOptions.Permissions sent
      token |-> NoToken,         \* ListRepos: the token the client was made with
      page |-> 0,                \* listing: listOptions.Page sent
      perPage |-> 0,             \* listing: listOptions.PerPage sent
      ok |-> TRUE,               \* the remote call returned no error
      minted |-> NoToken,        \* mint: the token returned
      list |-> <<>>,             \* listing: the page returned
      next |-> 0,                \* listing: response.NextPage
      at |-> now,                \* the clock when the event happened
      listed |-> NotListed,      \* repository check: listed, of the installation checked
      gen |-> 0,                 \* repository check: App.installsUpdatedAt
      stamp |-> 0 ]              \* freshness check: the timestamp checked

Logged(c, e) == log' = [log EXCEPT ![c] = Append(log[c], e)]

----------------------------------------------------------------------------
(* Searches of the cache *)

\* for _, i := range a.installs { if i.Owner == owner { return i.ID, nil } }
RECURSIVE FirstInstall(_, _, _)
FirstInstall(list, owner, x) ==
    IF x > Len(list) THEN 0
    ELSE IF list[x].Owner = owner THEN x
    ELSE FirstInstall(list, owner, x + 1)

\* the search for i leaving out the first installation of the list
RECURSIVE LastInstall_SkipFirst(_, _, _)
LastInstall_SkipFirst(list, owner, x) ==
    IF x <= 1 THEN 0
    ELSE IF list[x].Owner = owner THEN x
    ELSE LastInstall_SkipFirst(list, owner, x - 1)

\* for _, ii := range a.installs { if ii.Owner == owner { i = ii } }
RECURSIVE LastInstall(_, _, _)
LastInstall(list, owner, x) ==
    IF x = 0 THEN 0
    ELSE IF list[x].Owner = owner THEN x
    ELSE LastInstall(list, owner, x - 1)

\* for _, r := range i.Repositories { if r.Name == repo { return r.ID, nil } }
RECURSIVE FirstRepo(_, _, _)
FirstRepo(list, repo, y) ==
    IF y > Len(list) THEN 0
    ELSE IF list[y].Name = repo THEN list[y].ID
    ELSE FirstRepo(list, repo, y + 1)

\* the nested loops of getRepositoryID: 0 when no repository matches
RECURSIVE FindRepositoryID(_, _, _, _)
FindRepositoryID(list, owner, repo, x) ==
    IF x > Len(list) THEN 0
    ELSE IF list[x].Owner = owner /\ FirstRepo(list[x].Repositories, repo, 1) # 0
         THEN FirstRepo(list[x].Repositories, repo, 1)
    ELSE FindRepositoryID(list, owner, repo, x + 1)

\* &installation{ID: i.GetID(), Owner: strings.ToLower(i.Account.GetLogin())}
NewInstallation(e) ==
    [ID |-> e.ID, Owner |-> ToLower(e.Login), Repositories |-> <<>>, RepositoriesUpdatedAt |-> 0]

\* &repository{ID: r.GetID(), Name: r.GetName()}
NewRepository(r) == [ID |-> r.ID, Name |-> r.Name]

\* t.Add(a.updateInterval).After(time.Now())
Fresh(t) == t + UpdateInterval > now

----------------------------------------------------------------------------
(* The arguments of the top-level calls *)

Callers == {1, 2}

\* an owner as its login is written, and in lower case
OwnerArgs == {Acme, acme}

\* none, one, two against the listing order, one twice
RepoArgSeqs == { <<>>, <<infra>>, <<docs, infra>>, <<docs, docs>> }

\* &github.InstallationPermissions{Metadata: github.String("read")}
MetadataRead == { <<"metadata", "read">> }

\* a mutant: the bootstrap call asks for the permissions of an ordinary call
NoPermissions_MetadataRead == MetadataRead

\* &github.InstallationPermissions{}
NoPermissions == {}

PermissionArgs == { MetadataRead }

\* the arguments of the calls that run side by side: the first caller asks
\* for a token for a repository, the second for a token for the installation
ConcurrentOwnerArgs == { acme }

ConcurrentRepoArgSeqs(c) == IF c = 1 THEN { <<infra>> } ELSE { <<>> }

----------------------------------------------------------------------------
(* CreateInstallationToken *)

\* a caller enters CreateInstallationToken(owner, repos, permissions), with
\* an owner of owners and repositories of repoSeqs
EnterWith(c, owners, repoSeqs) ==
    /\ c \in callers
    /\ stack[c] = <<>>
    /\ \E owner \in owners, repos \in repoSeqs, permissions \in PermissionArgs :
        /\ stack' = [stack EXCEPT ![c] =
                        << [Frame("CreateInstallationToken", "L68") EXCEPT
                               !.owner = owner, !.repos = repos,
                               !.permissions = permissions] >>]
        /\ call' = [call EXCEPT ![c] =
                        [owner |-> owner, repos |-> repos, perms |-> permissions]]
    /\ log' = [log EXCEPT ![c] = <<>>]
    /\ result' = [result EXCEPT ![c] = NoResult]
    /\ ret' = [ret EXCEPT ![c] = NoRet]
    /\ UNCHANGED <<now, installs, installsUpdatedAt, remoteInstalls, remoteRepos,
                   changes, callers, listed>>

\* a caller enters CreateInstallationToken, one call after the other
Enter(c) == EnterWith(c, OwnerArgs, RepoArgSeqs)

\* a caller enters CreateInstallationToken, once
EnterOnce(c) ==
    /\ call[c] = NoCall
    /\ EnterWith(c, ConcurrentOwnerArgs, ConcurrentRepoArgSeqs(c))

\* installationID, err := a.getInstallationID(owner)
CIT_L68(c) ==
    /\ At(c, "CreateInstallationToken", "L68")
    /\ Call(c, [Top(c) EXCEPT !.pc = "L69"], [Frame("getInstallationID", "L91") EXCEPT !.owner = Top(c).owner])
    /\ UNCHANGED <<now, installs, installsUpdatedAt, remoteInstalls, remoteRepos,
                   changes, callers, call, log, listed>>

\* CreateInstallationToken going on to the loop whatever getInstallationID
\* returned
CIT_L69_IgnoreError(c) ==
    /\ At(c, "CreateInstallationToken", "L69")
    /\ Goto(c, [Top(c) EXCEPT !.pc = "L75", !.installationID = ret[c].val])
    /\ UNCHANGED <<now, installs, installsUpdatedAt, remoteInstalls, remoteRepos,
                   changes, callers, call, log, listed>>

\* if err != nil { return nil, err }; tokenOptions := ...
CIT_L69(c) ==
    /\ At(c, "CreateInstallationToken", "L69")
    /\ IF ret[c].err # NoErr
       THEN Return(c, 0, NoToken, ret[c].err)
       ELSE Goto(c, [Top(c) EXCEPT !.pc = "L75", !.installationID = ret[c].val])
    /\ UNCHANGED <<now, installs, installsUpdatedAt, remoteInstalls, remoteRepos,
                   changes, callers, call, log, listed>>

\* for _, repo := range repos { id, err := a.getRepositoryID(owner, repo)
CIT_L75(c) ==
    /\ At(c, "CreateInstallationToken", "L75")
    /\ IF Top(c).k > Len(Top(c).repos)
       THEN Goto(c, [Top(c) EXCEPT !.pc = "L82"])
       ELSE Call(c, [Top(c) EXCEPT !.pc = "L77"], [Frame("getRepositoryID", "L134") EXCEPT
                               !.owner = Top(c).owner,
                               !.repo = Top(c).repos[Top(c).k]])
    /\ UNCHANGED <<now, installs, installsUpdatedAt, remoteInstalls, remoteRepos,
                   changes, callers, call, log, listed>>

\* a mutant: the identity is put in front
AppendRepositoryID_Prepend(ids, id) == <<id>> \o ids

\* tokenOptions.RepositoryIDs after a repository was resolved to id
AppendRepositoryID(ids, id) == Append(ids, id)

\* a mutant: the error of a resolution is dropped and the loop goes on
CIT_L77_Continue(c) ==
    /\ At(c, "CreateInstallationToken", "L77")
    /\ Goto(c, [Top(c) EXCEPT
                   !.pc = "L75",
                   !.k = @ + 1,
                   !.repositoryIDs = IF ret[c].err # NoErr THEN @
                                     ELSE AppendRepositoryID(@, ret[c].val)])
    /\ UNCHANGED <<now, installs, installsUpdatedAt, remoteInstalls, remoteRepos,
                   changes, callers, call, log, listed>>

\* if err != nil { return nil, err }; tokenOptions.RepositoryIDs = append(..., id)
CIT_L77(c) ==
    /\ At(c, "CreateInstallationToken", "L77")
    /\ IF ret[c].err # NoErr
       THEN Return(c, 0, NoToken, ret[c].err)
       ELSE Goto(c, [Top(c) EXCEPT
                        !.pc = "L75",
                        !.k = @ + 1,
                        !.repositoryIDs = AppendRepositoryID(@, ret[c].val)])
    /\ UNCHANGED <<now, installs, installsUpdatedAt, remoteInstalls, remoteRepos,
                   changes, callers, call, log, listed>>

\* the remote grants a token only for an installation it holds and for
\* repositories of that installation
MintGranted(id, repositoryIDs) ==
    /\ \E x \in 1..Len(remoteInstalls) : remoteInstalls[x].ID = id
    /\ id \in DOMAIN remoteRepos
    /\ \A y \in 1..Len(repositoryIDs) :
          \E z \in 1..Len(remoteRepos[id]) : remoteRepos[id][z].ID = repositoryIDs[y]

\* a mutant: no names given, the identities of the cached repositories of
\* the owner are sent
TokenOptions_Cached(f) ==
    LET i == LastInstall(installs, f.owner, Len(installs))
    IN  [RepositoryIDs |->
            IF f.repositoryIDs = <<>> /\ i # 0
            THEN [y \in 1..Len(installs[i].Repositories) |-> installs[i].Repositories[y].ID]
            ELSE f.repositoryIDs,
         Permissions |-> f.permissions]

\* the tokenOptions sent with the mint
TokenOptions(f) == [RepositoryIDs |-> f.repositoryIDs, Permissions |-> f.permissions]

\* installationToken, _, err := a.client.CreateInstallationToken(ctx, installationID, tokenOptions)
CIT_L82(c) ==
    /\ At(c, "CreateInstallationToken", "L82")
    /\ \E ok \in BOOLEAN :
        LET f == Top(c)
            opts == TokenOptions(f)
            minted == IF ok THEN [inst |-> f.installationID, serial |-> Len(log[c]) + 1]
                      ELSE NoToken
        IN  /\ ok => MintGranted(f.installationID, opts.RepositoryIDs)
            /\ Logged(c, [Event("CreateInstallationToken", Depth(stack[c])) EXCEPT
                             !.id = f.installationID,
                             !.repositoryIDs = opts.RepositoryIDs,
                             !.permissions = opts.Permissions,
                             !.ok = ok,
                             !.minted = minted])
            /\ IF ok
               THEN Return(c, 0, minted, NoErr)
               ELSE Return(c, 0, NoToken,
                           FailedToCreateToken(RemoteErr("CreateInstallationToken")))
    /\ UNCHANGED <<now, installs, installsUpdatedAt, remoteInstalls, remoteRepos,
                   changes, callers, call, listed>>

----------------------------------------------------------------------------
(* getInstallationID and updateInstallations *)

\* if err := a.updateInstallations(); err != nil
GID_L91(c) ==
    /\ At(c, "getInstallationID", "L91")
    /\ Call(c, [Top(c) EXCEPT !.pc = "L92"], Frame("updateInstallations", "L104"))
    /\ UNCHANGED <<now, installs, installsUpdatedAt, remoteInstalls, remoteRepos,
                   changes, callers, call, log, listed>>

\* the key getInstallationID compares the cached owners with
LookupKey(owner) == owner

\* a mutant: no installation found, the zero identity is returned without an error
GID_L92_ZeroNil(c) ==
    /\ At(c, "getInstallationID", "L92")
    /\ LET x == FirstInstall(installs, LookupKey(Top(c).owner), 1)
       IN  IF ret[c].err # NoErr
           THEN Return(c, 0, NoToken, ret[c].err)
           ELSE IF x # 0
                THEN Return(c, installs[x].ID, NoToken, NoErr)
                ELSE Return(c, 0, NoToken, NoErr)
    /\ UNCHANGED <<now, installs, installsUpdatedAt, remoteInstalls, remoteRepos,
                   changes, callers, call, log, listed>>

\* { return 0, err }; for _, i := range a.installs { if i.Owner == owner ...
GID_L92(c) ==
    /\ At(c, "getInstallationID", "L92")
    /\ LET x == FirstInstall(installs, LookupKey(Top(c).owner), 1)
       IN  IF ret[c].err # NoErr
           THEN Return(c, 0, NoToken, ret[c].err)
           ELSE IF x # 0
                THEN Return(c, installs[x].ID, NoToken, NoErr)
                ELSE Return(c, 0, NoToken, ErrInstallationNotFound(Top(c).owner))
    /\ UNCHANGED <<now, installs, installsUpdatedAt, remoteInstalls, remoteRepos,
                   changes, callers, call, log, listed>>

\* a mutant: the list counts as fresh at the very end of the interval too
InstallsFresh_OffByOne == installsUpdatedAt + UpdateInterval >= now

\* if a.installsUpdatedAt.Add(a.updateInterval).After(time.Now()) { return nil }
InstallsFresh == Fresh(installsUpdatedAt)

\* the freshness check; var installs []*installation; listOptions = PerPage: 10
UI_L104(c) ==
    /\ At(c, "updateInstallations", "L104")
    /\ IF InstallsFresh
       THEN Return(c, 0, NoToken, NoErr)
       ELSE Goto(c, [Top(c) EXCEPT
                        !.pc = "L112",
                        !.pre = [installs |-> installs,
                                 installsUpdatedAt |-> installsUpdatedAt]])
    /\ Logged(c, [Event("checkInstallations", Depth(stack[c])) EXCEPT
                     !.stamp = installsUpdatedAt])
    /\ UNCHANGED <<now, installs, installsUpdatedAt, remoteInstalls, remoteRepos,
                   changes, callers, call, listed>>

\* installs = append(installs, &installation{...}) for every i of list
RECURSIVE AppendInstallations(_, _)
AppendInstallations(acc, list) ==
    IF list = <<>> THEN acc
    ELSE AppendInstallations(Append(acc, NewInstallation(Head(list))), Tail(list))

\* a mutant: the pages are appended to a.installs as they arrive
UI_L112_InPlace(c) ==
    /\ At(c, "updateInstallations", "L112")
    /\ \E ok \in BOOLEAN :
        LET f == Top(c)
            list == PageItems(remoteInstalls, f.page, InstallsPerPage)
            next == NextPage(remoteInstalls, f.page, InstallsPerPage)
        IN  /\ Logged(c, [Event("ListInstallations", Depth(stack[c])) EXCEPT
                             !.page = f.page,
                             !.perPage = InstallsPerPage,
                             !.ok = ok,
                             !.list = IF ok THEN list ELSE <<>>,
                             !.next = IF ok THEN next ELSE 0])
            /\ installs' = IF ok
                           THEN AppendInstallations(IF f.page = 0 THEN <<>> ELSE installs, list)
                           ELSE installs
            /\ IF ~ok
               THEN ReturnFrom(stack, c, 0, NoToken, RemoteErr("ListInstallations"))
               ELSE Goto(c, [f EXCEPT
                                !.acc = AppendInstallations(@, list),
                                !.page = IF next = 0 THEN @ ELSE next,
                                !.pc = IF next = 0 THEN "L128" ELSE "L112"])
    /\ UNCHANGED <<now, installsUpdatedAt, remoteInstalls, remoteRepos,
                   changes, callers, call, listed>>

\* list, response, err := a.client.ListInstallations(ctx, listOptions) and the
\* rest of the loop body
UI_L112(c) ==
    /\ At(c, "updateInstallations", "L112")
    /\ \E ok \in BOOLEAN :
        LET f == Top(c)
            list == PageItems(remoteInstalls, f.page, InstallsPerPage)
            next == NextPage(remoteInstalls, f.page, InstallsPerPage)
        IN  /\ Logged(c, [Event("ListInstallations", Depth(stack[c])) EXCEPT
                             !.page = f.page,
                             !.perPage = InstallsPerPage,
                             !.ok = ok,
                             !.list = IF ok THEN list ELSE <<>>,
                             !.next = IF ok THEN next ELSE 0])
            /\ IF ~ok
               THEN Return(c, 0, NoToken, RemoteErr("ListInstallations"))
               ELSE Goto(c, [f EXCEPT
                                !.acc = AppendInstallations(@, list),
                                !.page = IF next = 0 THEN @ ELSE next,
                                !.pc = IF next = 0 THEN "L128" ELSE "L112"])
    /\ UNCHANGED <<now, installs, installsUpdatedAt, remoteInstalls, remoteRepos,
                   changes, callers, call, listed>>

\* the stacks once App.installs holds new installations: every i of an
\* updateRepositories in progress points to an installation no longer in it
Detached(stacks) ==
    [d \in DOMAIN stacks |->
        [x \in 1..Len(stacks[d]) |->
            IF stacks[d][x].fn = "updateRepositories" /\ stacks[d][x].i # 0
            THEN [stacks[d][x] EXCEPT !.detached = TRUE]
            ELSE stacks[d][x]]]

\* a.installs, a.installsUpdatedAt = installs, time.Now(); return nil
UI_L128(c) ==
    /\ At(c, "updateInstallations", "L128")
    /\ installs' = Top(c).acc
    /\ installsUpdatedAt' = now
    /\ ReturnFrom(Detached(stack), c, 0, NoToken, NoErr)
    /\ UNCHANGED <<now, remoteInstalls, remoteRepos, changes, callers, call, log, listed>>

----------------------------------------------------------------------------
(* getRepositoryID and updateRepositories *)

\* if err := a.updateRepositories(owner); err != nil
GRID_L134(c) ==
    /\ At(c, "getRepositoryID", "L134")
    /\ Call(c, [Top(c) EXCEPT !.pc = "L135"], [Frame("updateRepositories", "L152") EXCEPT !.owner = Top(c).owner])
    /\ UNCHANGED <<now, installs, installsUpdatedAt, remoteInstalls, remoteRepos,
                   changes, callers, call, log, listed>>

\* a mutant: the error of updateRepositories is dropped and the cache searched
GRID_L135_DropError(c) ==
    /\ At(c, "getRepositoryID", "L135")
    /\ LET id == FindRepositoryID(installs, Top(c).owner, Top(c).repo, 1)
       IN  IF id # 0
           THEN Return(c, id, NoToken, NoErr)
           ELSE Return(c, 0, NoToken,
                       ErrInstallationNotFound(
                           SprintfOwnerRepo(Top(c).owner, Top(c).repo)))
    /\ UNCHANGED <<now, installs, installsUpdatedAt, remoteInstalls, remoteRepos,
                   changes, callers, call, log, listed>>

\* { return 0, err }; the search; return 0, ErrInstallationNotFound(owner/repo)
GRID_L135(c) ==
    /\ At(c, "getRepositoryID", "L135")
    /\ LET id == FindRepositoryID(installs, Top(c).owner, Top(c).repo, 1)
       IN  IF ret[c].err # NoErr
           THEN Return(c, 0, NoToken, ret[c].err)
           ELSE IF id # 0
                THEN Return(c, id, NoToken, NoErr)
                ELSE Return(c, 0, NoToken,
                            ErrInstallationNotFound(
                                SprintfOwnerRepo(Top(c).owner, Top(c).repo)))
    /\ UNCHANGED <<now, installs, installsUpdatedAt, remoteInstalls, remoteRepos,
                   changes, callers, call, log, listed>>

\* a mutant: the bootstrap call asks for a repository
NoRepos_Infra == <<infra>>

\* the nil repos of the bootstrap call
NoRepos == <<>>

\* a mutant: the list counts as fresh at the very end of the interval too
RepositoriesFresh_OffByOne(i) == installs[i].RepositoriesUpdatedAt + UpdateInterval >= now

\* i.RepositoriesUpdatedAt.Add(a.updateInterval).After(time.Now())
RepositoriesFresh(i) == Fresh(installs[i].RepositoriesUpdatedAt)

\* the search for i; the freshness check on i (a nil i panics, and the panic
\* ends the process: no caller takes another step);
\* token, err := a.CreateInstallationToken(owner, nil, &github.InstallationPermissions{})
UR_L152(c) ==
    /\ At(c, "updateRepositories", "L152")
    /\ LET i == LastInstall(installs, Top(c).owner, Len(installs))
       IN  IF i = 0
           THEN /\ Goto(c, [Top(c) EXCEPT !.pc = "panic"])
                /\ log' = log
                /\ callers' = {}
           ELSE /\ IF RepositoriesFresh(i)
                   THEN Return(c, 0, NoToken, NoErr)
                   ELSE Call(c, [Top(c) EXCEPT
                                    !.pc = "L164",
                                    !.i = i,
                                    !.checkedAt = now,
                                    !.pre = [installs |-> installs,
                                             installsUpdatedAt |-> installsUpdatedAt]],
                             [Frame("CreateInstallationToken", "L68") EXCEPT
                                 !.owner = Top(c).owner,
                                 !.repos = NoRepos,
                                 !.permissions = NoPermissions])
                /\ Logged(c, [Event("checkRepositories", Depth(stack[c])) EXCEPT
                                 !.id = installs[i].ID,
                                 !.listed = listed[installs[i].ID],
                                 !.gen = installsUpdatedAt,
                                 !.stamp = installs[i].RepositoriesUpdatedAt])
                /\ callers' = callers
    /\ UNCHANGED <<now, installs, installsUpdatedAt, remoteInstalls, remoteRepos,
                   changes, call, listed>>

\* if err != nil { return err }; client = a.installsClientFactory(token.GetToken())
UR_L164(c) ==
    /\ At(c, "updateRepositories", "L164")
    /\ IF ret[c].err # NoErr
       THEN Return(c, 0, NoToken, ret[c].err)
       ELSE Goto(c, [Top(c) EXCEPT !.pc = "L175", !.token = ret[c].token])
    /\ UNCHANGED <<now, installs, installsUpdatedAt, remoteInstalls, remoteRepos,
                   changes, callers, call, log, listed>>

\* repositories = append(repositories, &repository{...}) for every r of list
RECURSIVE AppendRepositories(_, _)
AppendRepositories(acc, list) ==
    IF list = <<>> THEN acc
    ELSE AppendRepositories(Append(acc, NewRepository(Head(list))), Tail(list))

\* the remote lists repositories only for a token of an installation it holds
ListGranted(token) ==
    /\ token.inst \in DOMAIN remoteRepos
    /\ \E x \in 1..Len(remoteInstalls) : remoteInstalls[x].ID = token.inst

\* list, response, err := client.ListRepos(ctx, listOptions) and the rest of
\* the loop body
UR_L175(c) ==
    /\ At(c, "updateRepositories", "L175")
    /\ \E ok \in BOOLEAN :
        LET f == Top(c)
            listing == IF ListGranted(f.token) THEN remoteRepos[f.token.inst] ELSE <<>>
            list == PageItems(listing, f.page, ReposPerPage)
            next == NextPage(listing, f.page, ReposPerPage)
        IN  /\ ok => ListGranted(f.token)
            /\ Logged(c, [Event("ListRepos", Depth(stack[c])) EXCEPT
                             !.token = f.token,
                             !.page = f.page,
                             !.perPage = ReposPerPage,
                             !.ok = ok,
                             !.list = IF ok THEN list ELSE <<>>,
                             !.next = IF ok THEN next ELSE 0])
            /\ IF ~ok
               THEN Return(c, 0, NoToken, RemoteErr("ListRepos"))
               ELSE Goto(c, [f EXCEPT
                                !.acc = AppendRepositories(@, list),
                                !.page = IF next = 0 THEN @ ELSE next,
                                !.pc = IF next = 0 THEN "L191" ELSE "L175"])
            /\ listed' = IF ok /\ next = 0
                         THEN [listed EXCEPT ![f.token.inst] =
                                  [at |-> f.checkedAt, gen |-> f.pre.installsUpdatedAt]]
                         ELSE listed
    /\ UNCHANGED <<now, installs, installsUpdatedAt, remoteInstalls, remoteRepos,
                   changes, callers, call>>

\* a mutant: the repositories are written, their timestamp is not
WriteRepositories_NoStamp(f) ==
    IF f.detached
    THEN installs
    ELSE [installs EXCEPT ![f.i] = [@ EXCEPT !.Repositories = f.acc]]

\* App.installs after the write through i: an i that is no longer in
\* App.installs leaves the list as it is
WriteRepositories(f) ==
    IF f.detached
    THEN installs
    ELSE [installs EXCEPT ![f.i] =
             [@ EXCEPT !.Repositories = f.acc, !.RepositoriesUpdatedAt = now]]

\* i.Repositories, i.RepositoriesUpdatedAt = repositories, time.Now(); return nil
UR_L191(c) ==
    /\ At(c, "updateRepositories", "L191")
    /\ installs' = WriteRepositories(Top(c))
    /\ Return(c, 0, NoToken, NoErr)
    /\ UNCHANGED <<now, installsUpdatedAt, remoteInstalls, remoteRepos, changes,
                   callers, call, log, listed>>

----------------------------------------------------------------------------
(* The environment *)

\* some caller is about to read the clock
ReadsClock ==
    \E c \in callers :
        /\ stack[c] # <<>>
        /\ \/ Top(c).fn = "updateInstallations" /\ Top(c).pc \in {"L104", "L128"}
           \/ Top(c).fn = "updateRepositories" /\ Top(c).pc \in {"L152", "L191"}

\* some caller is about to call the remote side
CallsRemote ==
    \E c \in callers :
        /\ stack[c] # <<>>
        /\ \/ Top(c).fn = "updateInstallations" /\ Top(c).pc = "L112"
           \/ Top(c).fn = "updateRepositories" /\ Top(c).pc = "L175"
           \/ Top(c).fn = "CreateInstallationToken" /\ Top(c).pc = "L82"

\* the clock advances; it is only seen where it is read, so it is enough
\* to let it advance there
Tick ==
    /\ ReadsClock
    /\ now < UpdateInterval + MaxTicks
    /\ now' = now + 1
    /\ UNCHANGED <<installs, installsUpdatedAt, remoteInstalls, remoteRepos,
                   changes, callers, stack, ret, call, result, log, listed, listed>>

\* the app is installed or uninstalled somewhere, repositories come and go;
\* the directory is only seen by the remote calls, so it is enough to let it
\* change before one
RemoteChange ==
    /\ CallsRemote
    /\ changes < MaxRemoteChanges
    /\ changes' = changes + 1
    /\ \E ri \in InstallListings, rr \in RepoDirectories :
        /\ <<ri, rr>> # <<remoteInstalls, remoteRepos>>
        /\ remoteInstalls' = ri
        /\ remoteRepos' = rr
    /\ UNCHANGED <<now, installs, installsUpdatedAt, callers, stack, ret, call, result,
                   log, listed>>

\* the app is uninstalled for the account called acme
Uninstall ==
    /\ CallsRemote
    /\ changes < MaxRemoteChanges
    /\ changes' = changes + 1
    /\ remoteInstalls # <<beta8>>
    /\ remoteInstalls' = <<beta8>>
    /\ UNCHANGED <<now, installs, installsUpdatedAt, remoteRepos, callers, stack, ret,
                   call, result, log, listed>>

----------------------------------------------------------------------------
(* The specifications *)

InitWith(cs) ==
    /\ now = UpdateInterval
    /\ installs = <<>>
    /\ installsUpdatedAt = 0
    /\ remoteInstalls \in InstallListings
    /\ remoteRepos \in RepoDirectories
    /\ changes = 0
    /\ callers = cs
    /\ stack = [c \in Callers |-> <<>>]
    /\ ret = [c \in Callers |-> NoRet]
    /\ call = [c \in Callers |-> NoCall]
    /\ result = [c \in Callers |-> NoResult]
    /\ log = [c \in Callers |-> <<>>]
    /\ listed = [inst \in InstallIDs |-> NotListed]

\* New(client), used by one caller at a time
Init == InitWith({1})

\* the steps of a call in progress
Proceed(c) ==
    \/ CIT_L68(c)
    \/ CIT_L69(c)
    \/ CIT_L75(c)
    \/ CIT_L77(c)
    \/ CIT_L82(c)
    \/ GID_L91(c)
    \/ GID_L92(c)
    \/ UI_L104(c)
    \/ UI_L112(c)
    \/ UI_L128(c)
    \/ GRID_L134(c)
    \/ GRID_L135(c)
    \/ UR_L152(c)
    \/ UR_L164(c)
    \/ UR_L175(c)
    \/ UR_L191(c)

Step(c) == Enter(c) \/ Proceed(c)

Next ==
    \/ \E c \in Callers : Step(c)
    \/ Tick
    \/ RemoteChange

Spec == Init /\ [][Next]_vars

\* the next step of c reads and writes nothing but the stack and the
\* return values of c: entering, calling, and reading what a call returned
Private(c) ==
    /\ c \in callers
    /\ IF stack[c] = <<>>
       THEN call[c] = NoCall
       ELSE \/ Top(c).fn = "CreateInstallationToken" /\ Top(c).pc \in {"L68", "L69", "L75", "L77"}
            \/ Top(c).fn = "getInstallationID" /\ Top(c).pc = "L91"
            \/ Top(c).fn = "getRepositoryID" /\ Top(c).pc = "L134"
            \/ Top(c).fn = "updateRepositories" /\ Top(c).pc = "L164"

\* a private step is the same step whatever the other callers, the clock
\* and the remote side do before or after it: it is enough to let private
\* steps go first, those of the first caller before those of the second
Turn(c) == \A d \in Callers : Private(d) => c <= d /\ Private(c)

Settled == \A d \in Callers : ~Private(d)

ConcurrentNext ==
    \/ \E c \in Callers : EnterOnce(c) /\ Turn(c)
    \/ \E c \in Callers : CIT_L68(c) /\ Turn(c)
    \/ \E c \in Callers : CIT_L69(c) /\ Turn(c)
    \/ \E c \in Callers : CIT_L75(c) /\ Turn(c)
    \/ \E c \in Callers : CIT_L77(c) /\ Turn(c)
    \/ \E c \in Callers : CIT_L82(c) /\ Turn(c)
    \/ \E c \in Callers : GID_L91(c) /\ Turn(c)
    \/ \E c \in Callers : GID_L92(c) /\ Turn(c)
    \/ \E c \in Callers : UI_L104(c) /\ Turn(c)
    \/ \E c \in Callers : UI_L112(c) /\ Turn(c)
    \/ \E c \in Callers : UI_L128(c) /\ Turn(c)
    \/ \E c \in Callers : GRID_L134(c) /\ Turn(c)
    \/ \E c \in Callers : GRID_L135(c) /\ Turn(c)
    \/ \E c \in Callers : UR_L152(c) /\ Turn(c)
    \/ \E c \in Callers : UR_L164(c) /\ Turn(c)
    \/ \E c \in Callers : UR_L175(c) /\ Turn(c)
    \/ \E c \in Callers : UR_L191(c) /\ Turn(c)
    \/ Tick /\ Settled
    \/ Uninstall /\ Settled

\* the App used by two callers at once, each for one call, the app being
\* installed for acme and beta and an earlier call having just loaded the
\* installation list
ConcurrentInit ==
    /\ now = UpdateInterval
    /\ installs = <<NewInstallation(acme9), NewInstallation(beta8)>>
    /\ installsUpdatedAt = UpdateInterval
    /\ remoteInstalls = <<acme9, beta8>>
    /\ remoteRepos = RepoDirectory(<<infra, docs>>)
    /\ changes = 0
    /\ callers = Callers
    /\ stack = [c \in Callers |-> <<>>]
    /\ ret = [c \in Callers |-> NoRet]
    /\ call = [c \in Callers |-> NoCall]
    /\ result = [c \in Callers |-> NoResult]
    /\ log = [c \in Callers |-> <<>>]
    /\ listed = [inst \in InstallIDs |-> NotListed]

ConcurrentSpec == ConcurrentInit /\ [][ConcurrentNext]_vars

\* a call that has been entered goes on: no step of app.go waits for
\* anything but the return of a remote call
Run(c) == stack[c] # <<>> /\ Step(c)

FairSpec == Spec /\ \A c \in Callers : WF_vars(Run(c))

----------------------------------------------------------------------------
(* What the claims speak of *)

\* the top-level call of c has returned a token
Succeeded(c) == result[c].done /\ result[c].err = NoErr

\* the positions of the log of c that hold an event of kind op
EventsOf(c, op) == { j \in 1..Len(log[c]) : log[c][j].op = op }

RemoteOps == {"ListInstallations", "CreateInstallationToken", "ListRepos"}

\* the positions of the log of c that hold a remote call
RemoteCalls(c) == { j \in 1..Len(log[c]) : log[c][j].op \in RemoteOps }

\* the installation cached for owner: the one getInstallationID finds
CachedFor(owner, id) ==
    \E x \in 1..Len(installs) :
        /\ installs[x].Owner = owner
        /\ installs[x].ID = id
        /\ \A y \in 1..(x - 1) : installs[y].Owner # owner

----------------------------------------------------------------------------
(* C1: when CreateInstallationToken(owner, repoNames, perms) succeeds, the  *)
(* last remote call it made is a token mint that carries the installation  *)
(* identity cached for owner, the permissions supplied, and as many        *)
(* repository identities as there are names, the k-th being the identity   *)
(* of the repository called repoNames[k] in that installation (order and   *)
(* duplicates kept); the call returns the token this mint produced.        *)
C1_MintCarriesResolvedIdentities ==
    \A c \in callers :
        Succeeded(c) =>
            /\ log[c] # <<>>
            /\ LET m == log[c][Len(log[c])]
               IN  /\ m.op = "CreateInstallationToken"
                   /\ m.ok
                   /\ m.depth = 1
                   /\ CachedFor(call[c].owner, m.id)
                   /\ m.permissions = call[c].perms
                   /\ Len(m.repositoryIDs) = Len(call[c].repos)
                   /\ \A k \in 1..Len(call[c].repos) :
                         m.repositoryIDs[k] = RemoteRepoID(m.id, call[c].repos[k])
                   /\ m.minted # NoToken
                   /\ result[c].token = m.minted

\* a call for two repositories, named against the listing order, succeeded
C1_Witness ==
    \E c \in callers :
        /\ Succeeded(c)
        /\ call[c].repos = <<docs, infra>>

\* a call that names one repository twice succeeded
C1_WitnessDuplicates ==
    \E c \in callers :
        /\ Succeeded(c)
        /\ call[c].repos = <<docs, docs>>
        /\ log[c][Len(log[c])].repositoryIDs = <<RemoteRepoID(7, docs), RemoteRepoID(7, docs)>>

----------------------------------------------------------------------------
(* C2: CreateInstallationToken(owner, [], perms), for an owner the cache   *)
(* holds an installation of, sends exactly one token mint, with that       *)
(* installation's identity and no repository identities, and neither       *)
(* checks nor refreshes any repository cache: no bootstrap mint, no        *)
(* ListRepos.                                                              *)
C2_NoNamesOneUnscopedMint ==
    \A c \in callers :
        call[c].repos = <<>> /\ (stack[c] # <<>> \/ result[c].done) =>
            /\ EventsOf(c, "ListRepos") = {}
            /\ EventsOf(c, "checkRepositories") = {}
            /\ \A j \in 1..Len(log[c]) : log[c][j].depth = 1
            /\ Cardinality(EventsOf(c, "CreateInstallationToken")) <= 1
            /\ \A j \in EventsOf(c, "CreateInstallationToken") :
                  /\ CachedFor(call[c].owner, log[c][j].id)
                  /\ log[c][j].repositoryIDs = <<>>
                  /\ log[c][j].permissions = call[c].perms
                  /\ j = Len(log[c])
            /\ ( /\ result[c].done
                 /\ result[c].err.kind # "ListInstallations"
                 /\ \E x \in 1..Len(installs) : installs[x].Owner = call[c].owner )
               => Cardinality(EventsOf(c, "CreateInstallationToken")) = 1

\* a call without names succeeded while the repository cache of the owner's
\* installation was stale
C2_Witness ==
    \E c \in callers :
        /\ Succeeded(c)
        /\ call[c].repos = <<>>
        /\ \E x \in 1..Len(installs) :
              /\ installs[x].Owner = call[c].owner
              /\ installs[x].RepositoriesUpdatedAt + UpdateInterval <= now

----------------------------------------------------------------------------
(* C3: owner matching ignores letter case: whenever getInstallationID      *)
(* returns without a remote failure and the cache holds an installation    *)
(* whose login equals the owner argument up to case, it returns that       *)
(* installation's identity and no error.                                   *)
C3_OwnerMatchingIgnoresCase ==
    \A c \in callers :
        ( /\ At(c, "CreateInstallationToken", "L69")
          /\ ret[c].err.kind # "ListInstallations"
          /\ \E x \in 1..Len(installs) : installs[x].Owner = ToLower(Top(c).owner) )
        => /\ ret[c].err = NoErr
           /\ CachedFor(ToLower(Top(c).owner), ret[c].val)

----------------------------------------------------------------------------
(* C4 *)

\* getInstallationID has just returned to CreateInstallationToken, the
\* installation list having been refreshed or found fresh, and no cached
\* installation has the login of the owner argument, whatever the case
OwnerAbsent(c) ==
    /\ At(c, "CreateInstallationToken", "L69")
    /\ ret[c].err.kind # "ListInstallations"
    /\ \A x \in 1..Len(installs) : installs[x].Owner # ToLower(Top(c).owner)

\* the last freshness check of the installation list in the log of c
LastInstallsCheck(c) ==
    log[c][CHOOSE j \in EventsOf(c, "checkInstallations") :
                \A h \in EventsOf(c, "checkInstallations") : h <= j]

(* C4 as claimed: for an owner in no fetched page, installation resolution *)
(* fails with NotFound carrying the owner, and a ListInstallations call    *)
(* was issued during that resolution.                                      *)
C4_NotFoundAfterListing ==
    \A c \in callers :
        OwnerAbsent(c) =>
            /\ ret[c].err = ErrInstallationNotFound(Top(c).owner)
            /\ log[c][Len(log[c])].op = "ListInstallations"

(* C4 as amended: for an owner in no fetched page, installation resolution *)
(* fails with NotFound carrying the owner; a ListInstallations run that    *)
(* ended without a next page was issued during that resolution if the     *)
(* installation list was stale at its freshness check, and no remote call  *)
(* at all if it was fresh.  NotFound is returned for no owner the cache    *)
(* holds under the key as given.                                           *)
C4_NotFoundAfterCheck ==
    \A c \in callers :
        /\ OwnerAbsent(c) =>
              /\ ret[c].err = ErrInstallationNotFound(Top(c).owner)
              /\ EventsOf(c, "checkInstallations") # {}
              /\ LET e == LastInstallsCheck(c)
                     last == log[c][Len(log[c])]
                 IN  IF e.stamp + UpdateInterval > e.at
                     THEN last = e
                     ELSE /\ last.op = "ListInstallations"
                          /\ last.ok
                          /\ last.next = 0
        /\ ( /\ At(c, "CreateInstallationToken", "L69")
             /\ ret[c].err.kind = "ErrInstallationNotFound" )
           => /\ ret[c].err.payload = Top(c).owner
              /\ \A x \in 1..Len(installs) : installs[x].Owner # Top(c).owner

\* NotFound was returned for an absent owner from a list that was still fresh
C4_Witness ==
    \E c \in callers :
        /\ OwnerAbsent(c)
        /\ ret[c].err.kind = "ErrInstallationNotFound"
        /\ log[c][Len(log[c])].op = "checkInstallations"
        /\ Len(stack[c]) = 1

----------------------------------------------------------------------------
(* C5: throttling of the installation list.  Every installation resolution *)
(* compares the time T of the last successful refresh with the clock t: if *)
(* T + interval > t it issues no ListInstallations call, and if            *)
(* T + interval <= t it starts exactly one refresh, a run of               *)
(* ListInstallations calls from the first page along the next-page         *)
(* cursors.  No ListInstallations call is made outside such a run, and T   *)
(* moves only when a run has ended without a next page, to a time not      *)
(* before the last page was fetched.                                       *)
C5_InstallationListThrottled ==
    /\ installsUpdatedAt <= now
    /\ \A c \in callers :
        \A j \in 1..Len(log[c]) :
            LET e == log[c][j]
            IN  /\ e.op = "checkInstallations" /\ e.stamp + UpdateInterval > e.at =>
                      /\ j < Len(log[c]) => log[c][j + 1].op # "ListInstallations"
                      /\ j = Len(log[c]) => ~At(c, "updateInstallations", "L112")
                /\ e.op = "checkInstallations" /\ e.stamp + UpdateInterval <= e.at =>
                      /\ j < Len(log[c]) =>
                            /\ log[c][j + 1].op = "ListInstallations"
                            /\ log[c][j + 1].page = 0
                      /\ j = Len(log[c]) => At(c, "updateInstallations", "L112")
                /\ e.op = "ListInstallations" =>
                      /\ j > 1
                      /\ \/ /\ log[c][j - 1].op = "checkInstallations"
                            /\ e.page = 0
                         \/ /\ log[c][j - 1].op = "ListInstallations"
                            /\ log[c][j - 1].ok
                            /\ log[c][j - 1].next # 0
                            /\ e.page = log[c][j - 1].next
                /\ e.op = "checkInstallations" =>
                      /\ e.stamp <= e.at
                      /\ \A h \in 1..(j - 1) :
                            log[c][h].op = "checkInstallations" =>
                                /\ log[c][h].stamp <= e.stamp
                                /\ log[c][h].stamp < e.stamp =>
                                      \E g \in (h + 1)..(j - 1) :
                                          /\ log[c][g].op = "ListInstallations"
                                          /\ log[c][g].ok
                                          /\ log[c][g].next = 0
                                          /\ log[c][g].at <= e.stamp

\* a top-level call began with a resolution that found the list, refreshed
\* by an earlier call, fresh and issued no refresh, and a later resolution,
\* the interval over, refreshed it again
C5_Witness ==
    \E c \in callers :
        \E j, h \in EventsOf(c, "checkInstallations") :
            /\ j = 1
            /\ j < h
            /\ log[c][j].stamp # 0
            /\ log[c][j].stamp + UpdateInterval > log[c][j].at
            /\ log[c][h].stamp = log[c][j].stamp
            /\ log[c][h].stamp + UpdateInterval <= log[c][h].at
            /\ h < Len(log[c])
            /\ log[c][h + 1].op = "ListInstallations"

----------------------------------------------------------------------------
(* C6: the refresh of the installation list is all or nothing: when a page *)
(* fetch of a refresh fails, the first or a later one, updateInstallations *)
(* returns the remote error, and the installation list with every          *)
(* installation's repositories and timestamps, and the list's timestamp,   *)
(* are what they were when the refresh began.                              *)
C6_FailedRefreshKeepsCache ==
    [][ \A c \in callers :
            ( /\ At(c, "updateInstallations", "L112")
              /\ log'[c] # log[c]
              /\ ~log'[c][Len(log'[c])].ok )
            => /\ installs' = Top(c).pre.installs
               /\ installsUpdatedAt' = Top(c).pre.installsUpdatedAt
               /\ ret'[c].err = RemoteErr("ListInstallations")
               /\ Len(stack'[c]) = Len(stack[c]) - 1 ]_vars

\* the second page of a refresh failed while the cache held installations
\* with repositories
C6_Witness ==
    \E c \in callers :
        /\ At(c, "getInstallationID", "L92")
        /\ ret[c].err = RemoteErr("ListInstallations")
        /\ log[c][Len(log[c])].op = "ListInstallations"
        /\ log[c][Len(log[c])].page = 2
        /\ \E x \in 1..Len(installs) : installs[x].Repositories # <<>>
        /\ installsUpdatedAt # 0

----------------------------------------------------------------------------
(* C7 *)

\* the repository resolutions the top-level call of c has started
Resolutions(c) ==
    { j \in EventsOf(c, "checkRepositories") : log[c][j].depth = 1 }

\* the final mints the top-level call of c has sent
FinalMints(c) ==
    { j \in EventsOf(c, "CreateInstallationToken") : log[c][j].depth = 1 }

(* C7: repository resolution fails fast.  When the resolution of the k-th  *)
(* name returns an error, CreateInstallationToken returns that error and   *)
(* no token in its next step, without another remote call; so no name      *)
(* after the k-th is resolved and no final mint is sent.  A final mint is  *)
(* only ever sent after every name was resolved, with one identity per     *)
(* name.                                                                   *)
C7_FailFast ==
    /\ [] \A c \in callers :
            /\ \A j \in FinalMints(c) :
                  /\ Cardinality(Resolutions(c)) = Len(call[c].repos)
                  /\ Len(log[c][j].repositoryIDs) = Len(call[c].repos)
                  /\ \A k \in 1..Len(call[c].repos) : log[c][j].repositoryIDs[k] # 0
            /\ ( /\ result[c].done
                 /\ result[c].err # NoErr
                 /\ Resolutions(c) # {}
                 /\ ~(log[c][Len(log[c])].op = "CreateInstallationToken"
                      /\ log[c][Len(log[c])].depth = 1) )
               => /\ FinalMints(c) = {}
                  /\ result[c].token = NoToken
                  /\ result[c].err.kind = "ErrInstallationNotFound"
                     /\ result[c].err.payload # call[c].owner
                     => result[c].err.payload =
                            call[c].owner \o <<47>>
                                \o call[c].repos[Cardinality(Resolutions(c))]
    /\ [][ \A c \in callers :
             ( /\ At(c, "CreateInstallationToken", "L77")
               /\ Len(stack[c]) = 1
               /\ ret[c].err # NoErr )
             => /\ result'[c] = [done |-> TRUE, token |-> NoToken, err |-> ret[c].err]
                /\ stack'[c] = <<>>
                /\ log'[c] = log[c]
                /\ Cardinality(Resolutions(c)) = Top(c).k ]_vars

\* the first of two names was not found: the second was never resolved
C7_Witness ==
    \E c \in callers :
        /\ result[c].done
        /\ result[c].err.kind = "ErrInstallationNotFound"
        /\ Len(call[c].repos) = 2
        /\ Cardinality(Resolutions(c)) = 1
        /\ result[c].err.payload = call[c].owner \o <<47>> \o call[c].repos[1]

----------------------------------------------------------------------------
(* C8 *)

\* getRepositoryID has just returned to CreateInstallationToken, and
\* updateRepositories had returned no error to it
Resolved(c) ==
    /\ At(c, "CreateInstallationToken", "L77")
    /\ \/ ret[c].err = NoErr
       \/ /\ ret[c].err.kind = "ErrInstallationNotFound"
          /\ ret[c].err.payload # Top(c).owner

\* a cached installation of owner holds a repository called repo
CacheHolds(owner, repo) ==
    \E x \in 1..Len(installs) :
        /\ installs[x].Owner = owner
        /\ \E y \in 1..Len(installs[x].Repositories) :
              installs[x].Repositories[y].Name = repo

\* the last repository freshness check in the log of c
LastReposCheckAt(c) ==
    CHOOSE j \in EventsOf(c, "checkRepositories") :
        \A h \in EventsOf(c, "checkRepositories") : h <= j

(* C8: when the repository cache of the owner's installation, found fresh  *)
(* or just refreshed in full, holds no repository called repoName,         *)
(* getRepositoryID fails with ErrInstallationNotFound carrying             *)
(* owner "/" repoName, and it fails so only then; a call that ends with    *)
(* this error has minted no token scoped to repositories.                  *)
C8_UnknownRepositoryNotFound ==
    \A c \in callers :
        /\ Resolved(c) =>
              LET f == Top(c)
                  e == log[c][LastReposCheckAt(c)]
                  last == log[c][Len(log[c])]
              IN  /\ \/ e.stamp + UpdateInterval > e.at /\ last = e
                     \/ /\ e.stamp + UpdateInterval <= e.at
                        /\ last.op = "ListRepos" /\ last.ok /\ last.next = 0
                  /\ ~CacheHolds(f.owner, f.repos[f.k]) <=>
                        ret[c].err = ErrInstallationNotFound(
                                         f.owner \o <<47>> \o f.repos[f.k])
                  /\ CacheHolds(f.owner, f.repos[f.k]) <=> ret[c].err = NoErr
        /\ ( /\ result[c].done
             /\ result[c].err.kind = "ErrInstallationNotFound" )
           => \A j \in EventsOf(c, "CreateInstallationToken") :
                  log[c][j].repositoryIDs = <<>>

\* a repository cache just refreshed in full lacks the name asked for
C8_Witness ==
    \E c \in callers :
        /\ Resolved(c)
        /\ ret[c].err = ErrInstallationNotFound(acme \o <<47>> \o docs)
        /\ log[c][Len(log[c])].op = "ListRepos"
        /\ \E x \in 1..Len(installs) :
              /\ installs[x].Owner = acme
              /\ installs[x].Repositories # <<>>
              /\ installs[x].RepositoriesUpdatedAt = now

----------------------------------------------------------------------------
(* C9: a remote failure is neither retried nor turned into NotFound: a     *)
(* failed ListInstallations, ListRepos, bootstrap mint or final mint is    *)
(* the last remote call of its top-level call, its error is handed up      *)
(* unchanged in kind from frame to frame, and the call returns an error    *)
(* of that kind (the mint's wrapped in "failed to create token"), never    *)
(* ErrInstallationNotFound.                                                *)
C9_RemoteFailurePropagates ==
    \A c \in callers :
        /\ \A j \in RemoteCalls(c) :
              ~log[c][j].ok =>
                  /\ j = Len(log[c])
                  /\ \/ /\ result[c].done
                        /\ result[c].err.kind = log[c][j].op
                        /\ result[c].err.wrapped = (log[c][j].op = "CreateInstallationToken")
                        /\ result[c].token = NoToken
                     \/ /\ ~result[c].done
                        /\ stack[c] # <<>>
                        /\ ret[c].err.kind = log[c][j].op
                        /\ ret[c].err.wrapped = (log[c][j].op = "CreateInstallationToken")
        /\ result[c].done /\ result[c].err.kind \in RemoteOps =>
              /\ log[c] # <<>>
              /\ log[c][Len(log[c])].op = result[c].err.kind
              /\ ~log[c][Len(log[c])].ok

\* the bootstrap mint failed and the top-level call returned its error
C9_Witness ==
    \E c \in callers :
        /\ result[c].done
        /\ result[c].err = FailedToCreateToken(RemoteErr("CreateInstallationToken"))
        /\ log[c][Len(log[c])].depth = 2

----------------------------------------------------------------------------
(* C10 *)

\* the pages ListRepos returned during the repository resolution that has
\* just returned, if it refreshed the repositories in full
FetchedPages(c) ==
    { j \in EventsOf(c, "ListRepos") : j > LastReposCheckAt(c) /\ log[c][j].ok }

(* C10: getRepositoryID returns NotFound only if the list it searched      *)
(* lacks the name: when the refresh it performed ended in full and a page  *)
(* it fetched holds a repository called repoName, it returns that          *)
(* repository's identity, however the clock advanced in between.           *)
C10_FetchedNameIsResolved ==
    \A c \in callers :
        ( /\ At(c, "CreateInstallationToken", "L77")
          /\ Len(stack[c]) = 1
          /\ log[c][Len(log[c])].op = "ListRepos"
          /\ log[c][Len(log[c])].ok
          /\ log[c][Len(log[c])].next = 0 )
        => \A j \in FetchedPages(c) :
               \A y \in 1..Len(log[c][j].list) :
                   log[c][j].list[y].Name = Top(c).repos[Top(c).k] =>
                       /\ ret[c].err = NoErr
                       /\ ret[c].val = log[c][j].list[y].ID

--------------------------------------------------------------------------------------------------------------------------------------------------------------------------------------------------------------------------
(* C11 as claimed: throttling of the repository list of one installation.  *)
(* When a repository resolution checks the repository list of an           *)
(* installation less than the refresh interval after an earlier resolution *)
(* that refreshed the list of that installation in full began, it finds    *)
(* the list fresh and starts no refresh of its own, whether or not the     *)
(* installation list was refreshed in between.                             *)
C11_RepositoryListThrottled ==
    \A c \in callers :
        \A j \in Resolutions(c) :
            ( /\ log[c][j].listed # NotListed
              /\ log[c][j].at < log[c][j].listed.at + UpdateInterval )
            => log[c][j].stamp + UpdateInterval > log[c][j].at

(* C11 as amended: the same, provided the installation list was not        *)
(* replaced between the freshness checks of the two resolutions (an        *)
(* installation list is replaced by entries with no repositories and a     *)
(* zero repositories timestamp).                                           *)
C11_ThrottledWithinOneInstallationList ==
    \A c \in callers :
        \A j \in Resolutions(c) :
            ( /\ log[c][j].listed # NotListed
              /\ log[c][j].at < log[c][j].listed.at + UpdateInterval
              /\ log[c][j].listed.gen = log[c][j].gen )
            => /\ log[c][j].stamp + UpdateInterval > log[c][j].at
               /\ log[c][j].stamp >= log[c][j].listed.at

\* a later top-level call, the clock having advanced, found fresh the
\* repository list that an earlier resolution had refreshed in full
C11_Witness ==
    \E c \in callers :
        \E j \in Resolutions(c) :
            /\ log[c][j].listed # NotListed
            /\ log[c][j].listed.at < log[c][j].at
            /\ log[c][j].at < log[c][j].listed.at + UpdateInterval
            /\ log[c][j].listed.gen = log[c][j].gen
            /\ \A h \in Resolutions(c) : j <= h

----------------------------------------------------------------------------
(* C12 *)

\* the installation that the repository refresh of frame f is for has, where
\* the cache holds it, the repositories and the timestamp it had when the
\* refresh began
KeptRepositories(f) ==
    \A x \in 1..Len(installs) :
        installs[x].ID = f.pre.installs[f.i].ID =>
            /\ installs[x].Repositories = f.pre.installs[f.i].Repositories
            /\ installs[x].RepositoriesUpdatedAt = f.pre.installs[f.i].RepositoriesUpdatedAt

\* the repositories of the pages from position j of the log of c on, in order
RECURSIVE FetchedFrom(_, _)
FetchedFrom(c, j) ==
    IF j > Len(log[c]) THEN <<>>
    ELSE (IF log[c][j].op = "ListRepos" /\ log[c][j].ok
          THEN [y \in 1..Len(log[c][j].list) |-> NewRepository(log[c][j].list[y])]
          ELSE <<>>) \o FetchedFrom(c, j + 1)

(* C12: the refresh of a repository list is all or nothing.  When the      *)
(* bootstrap mint has failed, and as long as the pages are being fetched,  *)
(* the installation has the repository list and the timestamp it had when  *)
(* the refresh began; when the last page has been fetched and              *)
(* updateRepositories has returned, the cached installation of owner holds *)
(* the fetched pages, in order, with a timestamp not before the last fetch.*)
C12_RepositoryRefreshAllOrNothing ==
    \A c \in callers :
        /\ ( /\ At(c, "updateRepositories", "L164")
             /\ ret[c].err.kind = "CreateInstallationToken" )
           => KeptRepositories(Top(c))
        /\ At(c, "updateRepositories", "L175") => KeptRepositories(Top(c))
        /\ ( /\ At(c, "getRepositoryID", "L135")
             /\ ret[c].err = NoErr
             /\ log[c][Len(log[c])].op = "ListRepos" )
           => LET i == LastInstall(installs, Top(c).owner, Len(installs))
              IN  /\ i # 0
                  /\ installs[i].Repositories = FetchedFrom(c, LastReposCheckAt(c))
                  /\ installs[i].RepositoriesUpdatedAt >= log[c][Len(log[c])].at

----------------------------------------------------------------------------
(* C13 *)

\* the repository lists the cache holds for owner are all stale
RepositoriesStale(owner) ==
    \A x \in 1..Len(installs) :
        installs[x].Owner = owner => ~Fresh(installs[x].RepositoriesUpdatedAt)

(* C13: the Fresh/Stale state machine of the two cache levels.  When a     *)
(* refresh of the installation list has failed, the list's timestamp is    *)
(* the stale one that was checked; when a refresh of an installation's     *)
(* repository list has failed, the repository lists cached for the owner   *)
(* are stale; so the next check of that level refreshes again.  When a     *)
(* refresh has succeeded, the level is fresh, with a timestamp between     *)
(* the last page fetch and the return.                                     *)
C13_FreshStaleStateMachine ==
    \A c \in callers :
        /\ ( /\ At(c, "getInstallationID", "L92")
             /\ ret[c].err # NoErr )
           => /\ installsUpdatedAt = LastInstallsCheck(c).stamp
              /\ ~Fresh(installsUpdatedAt)
        /\ ( /\ At(c, "getInstallationID", "L92")
             /\ ret[c].err = NoErr
             /\ log[c][Len(log[c])].op = "ListInstallations" )
           => /\ Fresh(installsUpdatedAt)
              /\ installsUpdatedAt >= log[c][Len(log[c])].at
              /\ installsUpdatedAt <= now
        /\ ( /\ At(c, "getRepositoryID", "L135")
             /\ ret[c].err # NoErr )
           => RepositoriesStale(Top(c).owner)
        /\ ( /\ At(c, "getRepositoryID", "L135")
             /\ ret[c].err = NoErr
             /\ log[c][Len(log[c])].op = "ListRepos" )
           => LET i == LastInstall(installs, Top(c).owner, Len(installs))
              IN  /\ i # 0
                  /\ Fresh(installs[i].RepositoriesUpdatedAt)
                  /\ installs[i].RepositoriesUpdatedAt >= log[c][Len(log[c])].at
                  /\ installs[i].RepositoriesUpdatedAt <= now

----------------------------------------------------------------------------
(* C14 *)

\* the freshness check that began the repository refresh which the event at
\* position h of the log of c belongs to
RefreshOf(c, h) ==
    CHOOSE k \in Resolutions(c) :
        /\ k < h
        /\ \A g \in Resolutions(c) : g < h => g <= k

\* the token mints between the positions k and h of the log of c
MintsBetween(c, k, h) ==
    { m \in EventsOf(c, "CreateInstallationToken") : k < m /\ m < h }

(* C14: the order of a repository refresh.  Every ListRepos call comes     *)
(* after the freshness check of its refresh and after exactly one token    *)
(* mint of that refresh; this mint succeeded, was sent by the nested       *)
(* CreateInstallationToken call with no repository identities and the      *)
(* empty permission set, and the ListRepos call uses the token it          *)
(* returned.  When the nested call sends the mint it carries the identity  *)
(* of the installation that is cached for owner at that moment.            *)
C14_BootstrapBeforeListing ==
    /\ [] \A c \in callers :
            \A h \in EventsOf(c, "ListRepos") :
                /\ \E k \in Resolutions(c) : k < h
                /\ Cardinality(MintsBetween(c, RefreshOf(c, h), h)) = 1
                /\ \A m \in MintsBetween(c, RefreshOf(c, h), h) :
                      /\ log[c][m].ok
                      /\ log[c][m].depth = 2
                      /\ log[c][m].repositoryIDs = <<>>
                      /\ log[c][m].permissions = {}
                      /\ log[c][m].minted # NoToken
                      /\ log[c][m].minted.inst = log[c][m].id
                      /\ log[c][h].token = log[c][m].minted
    /\ [][ \A c \in callers :
             ( /\ At(c, "CreateInstallationToken", "L82")
               /\ Depth(stack[c]) = 2
               /\ log'[c] # log[c] )
             => /\ Top(c).owner = call[c].owner
                /\ CachedFor(call[c].owner, log'[c][Len(log'[c])].id) ]_vars

\* the second page of a repository listing was fetched, the bootstrap call
\* before it having refreshed the installation list
C14_Witness ==
    \E c \in callers :
        \E h \in EventsOf(c, "ListRepos") :
            /\ log[c][h].page = 2
            /\ log[c][h].ok
            /\ \E g \in EventsOf(c, "ListInstallations") :
                  /\ RefreshOf(c, h) < g
                  /\ g < h

----------------------------------------------------------------------------
(* C15 *)

\* the frames of stack s from position x on hold no repository resolution
RECURSIVE NoResolutionFrom(_, _)
NoResolutionFrom(st, x) ==
    IF x > Len(st) THEN TRUE
    ELSE /\ st[x].fn \notin {"getRepositoryID", "updateRepositories"}
         /\ NoResolutionFrom(st, x + 1)

\* the position of the second CreateInstallationToken frame of stack s, if any
NestedAt(st) ==
    CHOOSE x \in 1..Len(st) :
        /\ st[x].fn = "CreateInstallationToken"
        /\ Depth(SubSeq(st, 1, x)) = 2

(* C15: the recursion between token issuance and repository refresh is    *)
(* bounded.  At most two CreateInstallationToken calls are on a stack; the *)
(* second is the bootstrap call of a repository refresh, has no repository *)
(* names, and nothing it calls resolves a repository or refreshes a        *)
(* repository list.  Every CreateInstallationToken call that was entered   *)
(* returns, the remote listings being finite.                              *)
C15_BoundedRecursion ==
    /\ [] \A c \in callers :
            /\ Depth(stack[c]) <= 2
            /\ Depth(stack[c]) = 2 =>
                  /\ stack[c][NestedAt(stack[c])].repos = <<>>
                  /\ stack[c][NestedAt(stack[c]) - 1].fn = "updateRepositories"
                  /\ NoResolutionFrom(stack[c], NestedAt(stack[c]))
    /\ \A c \in Callers : (stack[c] # <<>>) ~> (stack[c] = <<>>)

\* a bootstrap call is refreshing the installation list, on its second page
C15_Witness ==
    \E c \in callers :
        /\ Depth(stack[c]) = 2
        /\ At(c, "updateInstallations", "L112")
        /\ Top(c).page = 2
        /\ Len(stack[c]) = 6

----------------------------------------------------------------------------
(* C16 *)

\* the installations of the pages from position j of the log of c on, in order
RECURSIVE ListedFrom(_, _)
ListedFrom(c, j) ==
    IF j > Len(log[c]) THEN <<>>
    ELSE (IF log[c][j].op = "ListInstallations" /\ log[c][j].ok
          THEN [x \in 1..Len(log[c][j].list) |-> NewInstallation(log[c][j].list[x])]
          ELSE <<>>) \o ListedFrom(c, j + 1)

\* the sum of the lengths of the pages of kind op from position j of the log
\* of c on
RECURSIVE PageLengths(_, _, _)
PageLengths(c, op, j) ==
    IF j > Len(log[c]) THEN 0
    ELSE (IF log[c][j].op = op /\ log[c][j].ok THEN Len(log[c][j].list) ELSE 0)
         + PageLengths(c, op, j + 1)

\* the last freshness check of the installation list in the log of c
LastInstallsCheckAt(c) ==
    CHOOSE j \in EventsOf(c, "checkInstallations") :
        \A h \in EventsOf(c, "checkInstallations") : h <= j

\* every listing call of kind op in the log of c asks for the first page, if
\* it begins a run, and else for the page the call before it named as next,
\* a page after every page of the run so far
FollowsCursor(c, op) ==
    \A j \in EventsOf(c, op) :
        /\ j > 1
        /\ IF log[c][j - 1].op = op
           THEN /\ log[c][j - 1].ok
                /\ log[c][j - 1].next # 0
                /\ log[c][j].page = log[c][j - 1].next
                /\ log[c][j].page > PageNo(log[c][j - 1].page)
           ELSE log[c][j].page = 0

(* C16: pagination and wholesale replacement.  Each page of a refresh is   *)
(* fetched once, along the next-page cursors.  When a refresh of the       *)
(* installation list, or of an installation's repository list, has ended   *)
(* with a page without a next cursor and the list was swapped, the cached  *)
(* list is the pages in order, as long as the page lengths together, and   *)
(* holds nothing else; every installation of a swapped installation list   *)
(* has no repositories and a stale repositories timestamp.                 *)
C16_PaginationAndReplacement ==
    \A c \in callers :
        /\ FollowsCursor(c, "ListInstallations")
        /\ FollowsCursor(c, "ListRepos")
        /\ ( /\ At(c, "getInstallationID", "L92")
             /\ ret[c].err = NoErr
             /\ log[c][Len(log[c])].op = "ListInstallations" )
           => /\ log[c][Len(log[c])].next = 0
              /\ installs = ListedFrom(c, LastInstallsCheckAt(c))
              /\ Len(installs) = PageLengths(c, "ListInstallations", LastInstallsCheckAt(c))
              /\ \A x \in 1..Len(installs) :
                    /\ installs[x].Repositories = <<>>
                    /\ ~Fresh(installs[x].RepositoriesUpdatedAt)
        /\ ( /\ At(c, "getRepositoryID", "L135")
             /\ ret[c].err = NoErr
             /\ log[c][Len(log[c])].op = "ListRepos" )
           => LET i == LastInstall(installs, Top(c).owner, Len(installs))
              IN  /\ log[c][Len(log[c])].next = 0
                  /\ i # 0
                  /\ installs[i].Repositories = FetchedFrom(c, LastReposCheckAt(c))
                  /\ Len(installs[i].Repositories) =
                         PageLengths(c, "ListRepos", LastReposCheckAt(c))

----------------------------------------------------------------------------
(* C17 *)

\* the freshness check at position j of the log of c found its list stale
\* and was followed by a refresh that ran to a page without a next cursor
RefreshedInFull(c, j, op) ==
    /\ log[c][j].stamp + UpdateInterval <= log[c][j].at
    /\ \E h \in EventsOf(c, op) :
          /\ j < h
          /\ log[c][h].ok
          /\ log[c][h].next = 0
          /\ \A g \in (j + 1)..h : log[c][g].ok

(* C17: no fallback to stale data.  When getInstallationID has resolved    *)
(* owner, the installation list it searched has a last-updated time T with *)
(* T + interval after the clock of its freshness check; when               *)
(* getRepositoryID has resolved a name, the repository list it found the   *)
(* name in has such a time with respect to its own freshness check.  When  *)
(* CreateInstallationToken has returned a token, every freshness check of  *)
(* the call found its list fresh or was followed by a full refresh, and no *)
(* remote call of it failed; a call with a failed remote call returns no   *)
(* token.                                                                  *)
C17_NoFallbackToStaleData ==
    \A c \in callers :
        /\ ( /\ At(c, "CreateInstallationToken", "L69")
             /\ ret[c].err = NoErr )
           => installsUpdatedAt + UpdateInterval > LastInstallsCheck(c).at
        /\ ( /\ At(c, "CreateInstallationToken", "L77")
             /\ ret[c].err = NoErr )
           => \E x \in 1..Len(installs) :
                  /\ installs[x].Owner = Top(c).owner
                  /\ FirstRepo(installs[x].Repositories, Top(c).repos[Top(c).k], 1) = ret[c].val
                  /\ installs[x].RepositoriesUpdatedAt + UpdateInterval
                        > log[c][LastReposCheckAt(c)].at
        /\ Succeeded(c) =>
              /\ result[c].token # NoToken
              /\ \A j \in RemoteCalls(c) : log[c][j].ok
              /\ \A j \in EventsOf(c, "checkInstallations") :
                    \/ log[c][j].stamp + UpdateInterval > log[c][j].at
                    \/ RefreshedInFull(c, j, "ListInstallations")
              /\ \A j \in EventsOf(c, "checkRepositories") :
                    \/ log[c][j].stamp + UpdateInterval > log[c][j].at
                    \/ RefreshedInFull(c, j, "ListRepos")
        /\ ( /\ result[c].done
             /\ \E j \in RemoteCalls(c) : ~log[c][j].ok )
           => /\ result[c].token = NoToken
              /\ result[c].err # NoErr

\* a call returned a token for a repository whose list, refreshed before the
\* clock advanced, it found still fresh
C17_Witness ==
    \E c \in callers :
        /\ Succeeded(c)
        /\ \E j \in Resolutions(c) :
              /\ log[c][j].stamp # 0
              /\ log[c][j].stamp < log[c][j].at
              /\ log[c][j].stamp + UpdateInterval > log[c][j].at
              /\ EventsOf(c, "ListRepos") = {}

----------------------------------------------------------------------------
(* C18 *)

\* caller c is in updateRepositories and about to search App.installs for i
ReadsInstallation(c) ==
    /\ stack[c] # <<>>
    /\ Top(c).fn = "updateRepositories"
    /\ Top(c).pc = "L152"

\* caller c has dereferenced a nil i
Faulted(c) ==
    /\ stack[c] # <<>>
    /\ Top(c).pc = "panic"

(***************************************************************************)
(* C18: with one caller at a time the precondition of repository           *)
(* resolution always holds.  Whenever updateRepositories(owner) is about   *)
(* to read the installation of owner, App.installs holds an installation   *)
(* of that owner, whatever the clock and the nested bootstrap have done    *)
(* to the list before, and no call ever dereferences a nil installation.   *)
(***************************************************************************)
C18_InstallationPresentWhenRead ==
    \A c \in Callers :
        /\ ~Faulted(c)
        /\ ReadsInstallation(c) =>
               LastInstall(installs, Top(c).owner, Len(installs)) # 0

\* updateRepositories has read the installation of owner after the clock
\* advanced, and the nested bootstrap has then swapped in a list without
\* owner: the nested call has returned and updateRepositories goes on to
\* look at its error
C18_Witness ==
    \E c \in callers :
        /\ At(c, "updateRepositories", "L164")
        /\ Top(c).i # 0
        /\ Top(c).checkedAt > UpdateInterval
        /\ installsUpdatedAt > Top(c).pre.installsUpdatedAt
        /\ LastInstall(installs, Top(c).owner, Len(installs)) = 0
        /\ ret[c].err = ErrInstallationNotFound(Top(c).owner)

----------------------------------------------------------------------------
(* C19 *)

\* caller d has listed the installations to the last page, and no page held
\* an installation of owner
ListedWithout(d, owner) ==
    \E j \in EventsOf(d, "ListInstallations") :
        /\ log[d][j].ok
        /\ log[d][j].next = 0
        /\ log[d][j].at <= installsUpdatedAt
        /\ \A h \in EventsOf(d, "ListInstallations") :
               \A x \in 1..Len(log[d][h].list) :
                   ToLower(log[d][h].list[x].Login) # owner

\* caller c has dereferenced a nil installation in the repository resolution
\* of a call that had resolved the installation of its owner, App.installs
\* holding no installation of that owner any more; the call has returned
\* nothing, no error either
FaultedAfterRemoval(c) ==
    /\ Faulted(c)
    /\ Top(c).fn = "updateRepositories"
    /\ stack[c][1].fn = "CreateInstallationToken"
    /\ stack[c][1].installationID # 0
    /\ stack[c][1].owner = Top(c).owner
    /\ FirstInstall(installs, Top(c).owner, 1) = 0
    /\ ~result[c].done

(***************************************************************************)
(* C19: with two concurrent callers and no locking a concurrent removal    *)
(* faults.  An interleaving exists (C19_Witness) in which caller A has     *)
(* resolved the installation of owner, the installation-list refresh of    *)
(* caller B swaps in a list without owner, and the repository resolution   *)
(* of A dereferences a missing installation; and this is the only way a    *)
(* call faults: whenever a caller has faulted, it had resolved the         *)
(* installation of owner, App.installs holds no installation of owner,     *)
(* the other caller has listed the installations without owner, and the    *)
(* faulted call has returned no error.                                     *)
(***************************************************************************)
C19_FaultOnlyByConcurrentRemoval ==
    \A c \in Callers :
        Faulted(c) =>
            /\ FaultedAfterRemoval(c)
            /\ \E d \in Callers \ {c} : ListedWithout(d, Top(c).owner)

\* caller 1 has resolved installation 9 of acme and listed nothing itself,
\* caller 2 has swapped in a list without acme, and caller 1 has faulted in
\* updateRepositories
C19_Witness ==
    /\ FaultedAfterRemoval(1)
    /\ stack[1][1].installationID = 9
    /\ EventsOf(1, "ListInstallations") = {}
    /\ ListedWithout(2, acme)
    /\ installsUpdatedAt > UpdateInterval
    /\ callers = {}


============================================================================
